---- MODULE Spec2Model ----
(***************************************************************************)
(* Model of the structured-logging facade of github.com/pitabwire/util:   *)
(* the pooled LogEntry handle (NewLogger / With* / WithContext / Release), *)
(* context propagation (ContextWithLogger / Log), emission, the Fatal and  *)
(* Panic escalation paths and the MultiHandler fan-out sink.               *)
(*                                                                         *)
(* A handle is a *LogEntry, i.e. the address of a block. held[b] lists,    *)
(* for every handle on block b that its holder has not released, what the  *)
(* handle was issued with; it is bookkeeping the program does not keep.    *)
(***************************************************************************)
EXTENDS Integers, Sequences, FiniteSets, TLC

\* ------------------------------------------------------------------ bounds
NBlocks == 2        \* LogEntry blocks the pool's New may allocate
MaxPooled == 2      \* times one block may sit in the pool at once
MaxDepth == 3       \* frames above the logging method on the caller's stack
MaxMembers == 2     \* member handlers of one MultiHandler

\* ------------------------------------------------------------------ values
CallerDepth == 3                           \* const CallerDepth

Block == 1..NBlocks
Nil == 0                                   \* the nil *LogEntry

\* A context key: Go compares keys as interface values, by dynamic type
\* and by value.
ctxValueLogger == [type |-> "contextKeyType", name |-> "logger"]

\* A value stored in a context, with its dynamic type; v is a pointer (a
\* block, or Nil) or stands for a string or an object.
TypedValue(type, v) == [type |-> type, v |-> v]
\* What Value returns when no binding has the key: the nil interface.
NoValue == TypedValue("nil", Nil)

\* A context.Context: its root (0: the nil Context, 1: Background, 2: a
\* request's context) and the bindings context.WithValue added, the
\* innermost last.
NilCtx == [id |-> 0, vals |-> <<>>]
Background == [id |-> 1, vals |-> <<>>]
\* A request context that carries some other value under the logger key.
OtherCtx == [id |-> 2, vals |-> <<[key |-> ctxValueLogger, val |-> TypedValue("string", 1)]>>]
CtxInputs == {Background, OtherCtx}

\* An attribute: its key and, for the file attribute, the frame it names.
Attr(k) == [k |-> k, v |-> 0]
AttrKey == {"g1", "g2"}
ErrAttr == Attr("err")                     \* tint.Err(err)
FileAttr(frame) == [k |-> "file", v |-> frame]

\* A *slog.Logger, by value: the handlers records go to ("tint" is the
\* default handler, others are the caller's), the minimum level and the
\* output stream of the handler NewLogger built, and the attributes added
\* by Logger.With, in order.
NilLog == [level |-> "", out |-> "", attrs |-> <<>>, handler |-> <<>>]
\* The options NewLogger is called with here: the defaults, and error level
\* with stack traces.
OptInputs ==
    {[level |-> "INFO", showStackTrace |-> FALSE, output |-> "nil",
      handler |-> "nil", exclusive |-> FALSE],
     [level |-> "ERROR", showStackTrace |-> TRUE, output |-> "nil",
      handler |-> "nil", exclusive |-> FALSE]}

\* The zero LogEntry.
ZeroEntry == [ctx |-> NilCtx, log |-> NilLog, stackTraces |-> FALSE]

VARIABLES
    heap,        \* heap[b]: the fields of LogEntry block b
    nalloc,      \* blocks 1..nalloc have been allocated by the pool's New
    pool,        \* logEntryPool: pool[b] = number of times b is in the pool
    held,        \* held[b]: the unreleased handles on b, as issued
    stale,       \* blocks a caller released and still holds a pointer to
    doubled,     \* some handle has been released twice
    defaultLog,  \* slog.Default()
    ret,         \* the last completed call: operation, result, records
    esc,         \* the Fatal or Panic call in progress, or the last one
    mh,          \* MultiHandler.handlers
    mhCall,      \* the MultiHandler method call in progress, or the last one
    call         \* the last call of a function that touches none of the above

poolVars == <<heap, nalloc, pool, held, stale, doubled, defaultLog, ret>>
progVars == <<heap, nalloc, pool, held, stale, doubled, defaultLog, ret, esc, mh, mhCall>>
vars == <<heap, nalloc, pool, held, stale, doubled, defaultLog, ret, esc, mh, mhCall, call>>

\* ------------------------------------------------------------------ helpers
\* slog.Logger.With(args...): a new logger with the attributes appended.
LoggerWith(l, args) == [l EXCEPT !.attrs = @ \o args]

\* context.WithValue(ctx, key, val): a child context with one more binding.
WithValue(ctx, key, val) == [ctx EXCEPT !.vals = Append(@, [key |-> key, val |-> val])]

\* ctx.Value(key): the innermost binding of an equal key, from binding n
\* outwards.
RECURSIVE ValueFrom(_, _, _)
ValueFrom(ctx, key, n) ==
    IF n = 0
    THEN NoValue
    ELSE IF ctx.vals[n].key = key THEN ctx.vals[n].val ELSE ValueFrom(ctx, key, n - 1)

Value(ctx, key) == ValueFrom(ctx, key, Len(ctx.vals))

\* ContextWithLogger(ctx, logger)
ContextWithLogger(ctx, logger) ==
    WithValue(ctx, ctxValueLogger, TypedValue("*LogEntry", logger))

\* A Get that may hand out any block New ever made, pooled or in use.
PoolGetAllocated ==
    (1..nalloc) \cup (IF nalloc < NBlocks THEN {nalloc + 1} ELSE {})

\* sync.Pool.Get: an arbitrary pooled item, or a new one from New.
PoolGetChoices ==
    {b \in Block : pool[b] > 0} \cup (IF nalloc < NBlocks THEN {nalloc + 1} ELSE {})

\* A Get that hands a pooled block out and leaves it in the pool.
PoolKeep(b) == pool

PoolAfterGet(b) == IF pool[b] > 0 THEN [pool EXCEPT ![b] = @ - 1] ELSE pool

\* sync.Pool.Put
PoolAfterPut(b) == [pool EXCEPT ![b] = @ + 1]

Issued(e) ==
    [ctx |-> e.ctx, log |-> e.log, stackTraces |-> e.stackTraces, after2 |-> doubled]

Issue(b, e) == [held EXCEPT ![b] = Append(@, Issued(e))]

\* Bound on the handles that share one block.
MayIssue(b) == Len(held[b]) < MaxPooled

\* What a call leaves with its caller: the method that ran, the pointer it
\* returned (for an emitting method: its receiver) and the records emitted.
Returned(op, val) == [op |-> op, val |-> val, recs |-> <<>>]

NoEsc ==
    [op |-> "none", e |-> Nil, stackTraces |-> FALSE, log |-> NilLog, ctx |-> NilCtx,
     guarded |-> FALSE, hist |-> <<>>, recs |-> <<>>, code |-> 0]

NoCall == [op |-> "none", level |-> 0, n |-> 0, i |-> 0, invoked |-> <<>>, result |-> "none"]

Init ==
    /\ esc = NoEsc
    /\ mh = <<>>
    /\ mhCall = NoCall
    /\ call = [op |-> "none"]
    /\ heap = [b \in Block |-> ZeroEntry]
    /\ nalloc = 0
    /\ pool = [b \in Block |-> 0]
    /\ held = [b \in Block |-> <<>>]
    /\ stale = {}
    /\ doubled = FALSE
    /\ defaultLog = NilLog
    /\ ret = Returned("init", Nil)

\* ------------------------------------------------------------------ lifecycle
\* The tail of NewLogger: take a block from the pool and fill its fields.
NewEntry(ctx, log, stackTraces) ==
    [ctx |-> ctx, log |-> log, stackTraces |-> stackTraces]

\* defaultLogOptions(), as far as NewLogger reads it.
DefaultOpts ==
    [level |-> "INFO", showStackTrace |-> FALSE, output |-> "nil",
     handler |-> "nil", exclusive |-> FALSE]

\* NewLogger: the output writer.
OutputWriter(opts) ==
    IF opts.output # "nil"
    THEN opts.output
    ELSE IF opts.level = "ERROR" THEN "stderr" ELSE "stdout"

\* defaultHandlerCreator(outputWriter, options): the handlers of the
\* logger. The default handler writes to outputWriter; a handler given
\* with WithLogHandler is added to it, or with WithLogHandlerExclusive
\* stands alone.
defaultHandlerCreator(writer, options) ==
    IF options.handler = "nil"
    THEN <<"tint">>
    ELSE IF options.exclusive THEN <<options.handler>> ELSE <<"tint", options.handler>>

\* What a method changes in the entry it got from clone: With adds
\* attributes to the sink, WithContext sets the context.
NoChange == [args |-> <<>>, setCtx |-> FALSE, ctx |-> NilCtx]

SetLog(args) == [args |-> args, setCtx |-> FALSE, ctx |-> NilCtx]

SetCtx(ctx) == [args |-> <<>>, setCtx |-> TRUE, ctx |-> ctx]

\* A With that sets the sink to the added attributes alone.
ChangedDropsAttrs(c, upd) ==
    [c EXCEPT !.log = IF upd.args = <<>> THEN @ ELSE [@ EXCEPT !.attrs = upd.args],
              !.ctx = IF upd.setCtx THEN upd.ctx ELSE @]

Changed(c, upd) ==
    [c EXCEPT !.log = LoggerWith(@, upd.args),
              !.ctx = IF upd.setCtx THEN upd.ctx ELSE @]

\* NewLogger(ctx, opts...), called within method `op`: build the logger,
\* make it the default, take a block and fill it. `upd` is what the
\* calling method then changes in the entry it got.
NewLoggerAs(op, ctx, opts, upd) ==
    /\ \E b \in {x \in PoolGetChoices : MayIssue(x)} :
         LET log == [level |-> opts.level, out |-> OutputWriter(opts), attrs |-> <<>>,
                     handler |-> defaultHandlerCreator(OutputWriter(opts), opts)]
             e == Changed(NewEntry(ctx, log, opts.showStackTrace), upd)
         IN /\ defaultLog' = log
            /\ pool' = PoolAfterGet(b)
            /\ nalloc' = IF b > nalloc THEN b ELSE nalloc
            /\ heap' = [heap EXCEPT ![b] = e]
            /\ held' = Issue(b, e)
            /\ ret' = Returned(op, b)
            /\ UNCHANGED <<stale, doubled>>

NewLogger(ctx, opts) ==
    NewLoggerAs("NewLogger", ctx, opts, NoChange)

\* A reset that leaves the context in the block.
ResetButCtx(e) == [e EXCEPT !.log = NilLog, !.stackTraces = FALSE]

\* Release: the fields are reset before the block is put into the pool.
ResetEntry(e) == [e EXCEPT !.ctx = NilCtx, !.log = NilLog, !.stackTraces = FALSE]

\* The holder's bookkeeping after releasing handle k of block b.
Dropped(b, k) ==
    [held EXCEPT ![b] = SubSeq(@, 1, k - 1) \o SubSeq(@, k + 1, Len(@))]

\* e.Release() by the holder of handle k on block b; with `keep` the holder
\* goes on holding the pointer afterwards.
Release(b, k, keep) ==
    /\ k \in 1..Len(held[b])
    /\ heap' = [heap EXCEPT ![b] = ResetEntry(heap[b])]
    /\ pool' = PoolAfterPut(b)
    /\ held' = Dropped(b, k)
    /\ keep => stale = {} /\ ~doubled
    /\ stale' = IF keep THEN stale \cup {b} ELSE stale
    /\ ret' = Returned("Release", Nil)
    /\ UNCHANGED <<nalloc, doubled, defaultLog>>

\* e.Release() a second time, through a pointer kept after the first.
ReleaseAgain(b) ==
    /\ b \in stale
    /\ pool[b] < MaxPooled
    /\ heap' = [heap EXCEPT ![b] = ResetEntry(heap[b])]
    /\ pool' = PoolAfterPut(b)
    /\ stale' = stale \ {b}
    /\ doubled' = TRUE
    /\ ret' = Returned("Release", Nil)
    /\ UNCHANGED <<nalloc, held, defaultLog>>

\* (*LogEntry)(nil).Release(): returns at once.
ReleaseNil ==
    /\ ret' = Returned("Release", Nil)
    /\ UNCHANGED <<heap, nalloc, pool, held, stale, doubled, defaultLog>>

\* A clone that does not copy the stack-trace flag.
cloneWithoutFlag(e) == [ctx |-> e.ctx, log |-> e.log, stackTraces |-> FALSE]

\* clone: the fields copied from the receiver into the new block.
cloneFields(e) ==
    [ctx |-> e.ctx, log |-> e.log, stackTraces |-> e.stackTraces]

\* A clone that writes into the receiver's own block.
cloneInPlace(e) == {e}

\* clone: the block the copy is made in, taken from the pool.
cloneBlocks(e) == PoolGetChoices

\* e.clone() as part of method `op`, followed by the method's change `upd`
\* to the clone (With: the sink; WithContext: the context).
cloneAs(op, e, upd) ==
    IF e = Nil
    THEN NewLoggerAs(op, Background, DefaultOpts, upd)
    ELSE \E b \in {x \in cloneBlocks(e) : MayIssue(x)} :
           LET c == Changed(cloneFields(heap[e]), upd)
           IN /\ pool' = PoolAfterGet(b)
              /\ nalloc' = IF b > nalloc THEN b ELSE nalloc
              /\ heap' = [heap EXCEPT ![b] = c]
              /\ held' = Issue(b, c)
              /\ ret' = Returned(op, b)
              /\ UNCHANGED <<stale, doubled, defaultLog>>

\* A With that takes the cloning path whatever its arguments.
WithAlwaysClones(args) == FALSE

\* With: the no-argument test.
WithNoArgs(args) == Len(args) = 0

\* e.With(args...), entered through method `op`.
WithAs(op, e, args) ==
    IF WithNoArgs(args)
    THEN /\ ret' = Returned(op, e)
         /\ UNCHANGED <<heap, nalloc, pool, held, stale, doubled, defaultLog>>
    ELSE cloneAs(op, e, SetLog(args))

\* The receivers a caller may use: nil, or a handle it holds.
Receivers == {Nil} \cup {b \in Block : held[b] # <<>>}

\* The attributes of the receiver's sink.
AttrsOf(e) == IF e = Nil THEN <<>> ELSE heap[e].log.attrs

\* The calls made here add the keys g1 and g2 to a sink in this order,
\* each at most once, and the error attribute to a sink that has no
\* attributes; so a sink carries one of five attribute lists.
KeyRank(a) == CASE a.k = "g1" -> 1 [] a.k = "g2" -> 2 [] OTHER -> 3

MayAdd(e, args) ==
    LET all == AttrsOf(e) \o args
    IN /\ \A m, n \in 1..Len(all) : m < n => KeyRank(all[m]) < KeyRank(all[n])
       /\ (\E m \in 1..Len(all) : all[m] = ErrAttr) => Len(all) = 1

\* Argument lists: the attribute keys, each at most once, in any order.
ArgLists ==
    {s \in UNION {[1..n -> {Attr(k) : k \in AttrKey}] : n \in 0..Cardinality(AttrKey)} :
        \A m, n \in 1..Len(s) : m # n => s[m] # s[n]}

With(e, args) == MayAdd(e, args) /\ WithAs("With", e, args)

\* WithField, WithError and WithFields return what With returns.
WithField(e, key) == MayAdd(e, <<Attr(key)>>) /\ WithAs("With", e, <<Attr(key)>>)

WithError(e) == MayAdd(e, <<ErrAttr>>) /\ WithAs("With", e, <<ErrAttr>>)

\* WithFields: the map is flattened in Go's (unspecified) iteration order.
MapOrders(fields) ==
    {s \in ArgLists : {s[n].k : n \in 1..Len(s)} = fields}

WithFields(e, fields) ==
    \E data \in MapOrders(fields) : MayAdd(e, data) /\ WithAs("With", e, data)

\* e.WithContext(ctx)
WithContext(e, ctx) == cloneAs("WithContext", e, SetCtx(ctx))

\* ------------------------------------------------------------------ context
\* Log(ctx): the attached *LogEntry when the value under the key is one,
\* a new default logger otherwise.
LogFound(ctx) ==
    LET v == Value(ctx, ctxValueLogger)
    IN v # NoValue /\ v.type = "*LogEntry"

Log(ctx) ==
    IF LogFound(ctx)
    THEN /\ ret' = Returned("Log", Value(ctx, ctxValueLogger).v)
         /\ UNCHANGED <<heap, nalloc, pool, held, stale, doubled, defaultLog>>
    ELSE NewLoggerAs("Log", ctx, DefaultOpts, NoChange)

\* The contexts a caller may pass to Log.
LogInputs ==
    CtxInputs \cup {ContextWithLogger(Background, p) : p \in Receivers}

\* ------------------------------------------------------------------ emission
\* The caller's stack: the number of frames above the logging method. A
\* method called from a function running on a goroutine has two at least,
\* the function and its caller (or runtime.goexit).
StackDepths == 2..MaxDepth

\* A record handed to a slog.Logger: level, the logger (with its
\* attributes), the context, and whether the message carries debug.Stack().
Rec(level, log, ctx, stack) == [level |-> level, log |-> log, ctx |-> ctx, stack |-> stack]

\* e._ctx()
EntryCtx(e) == IF heap[e].ctx = NilCtx THEN Background ELSE heap[e].ctx

\* e.withFileLineNum(), reached through `chain` methods of LogEntry from a
\* caller with `depth` frames: runtime.Caller(CallerDepth) counts frame 0
\* as withFileLineNum itself, so it names the caller's frame
\* CallerDepth - chain, where frame 1 is the call site of the method.
withFileLineNum(e, depth, chain) ==
    LET frame == CallerDepth - chain
        ok == frame <= depth
    IN IF ok THEN LoggerWith(heap[e].log, <<FileAttr(frame)>>) ELSE heap[e].log

Emitted(op, e, recs) ==
    /\ ret' = [op |-> op, val |-> e, recs |-> recs]
    /\ UNCHANGED <<heap, nalloc, pool, held, stale, doubled, defaultLog>>

\* The handles a caller may emit through: those it holds.
Emitters == {b \in Block : held[b] # <<>>}

Info(e) == Emitted("Info", e, <<Rec("INFO", heap[e].log, EntryCtx(e), FALSE)>>)

Warn(e) == Emitted("Warn", e, <<Rec("WARN", heap[e].log, EntryCtx(e), FALSE)>>)

DebugRecs(e, depth, chain) ==
    <<Rec("DEBUG", withFileLineNum(e, depth, chain), EntryCtx(e), FALSE)>>

Debug(e, depth) == Emitted("Debug", e, DebugRecs(e, depth, 1))

\* Trace calls Debug: one more method frame below the caller.
Trace(e, depth) == Emitted("Trace", e, DebugRecs(e, depth, 2))

ErrorRecs(e, depth) ==
    LET log == withFileLineNum(e, depth, 1)
    IN (IF heap[e].stackTraces
        THEN <<Rec("ERROR", log, EntryCtx(e), TRUE)>>
        ELSE <<>>) \o <<Rec("ERROR", log, EntryCtx(e), FALSE)>>

Error(e, depth) == Emitted("Error", e, ErrorRecs(e, depth))

\* ------------------------------------------------------------------ escalation
\* Fatal as it is in logger.go: the record, then the exit, no Release.
FatalNoRelease == <<"emit", "exit">>

\* The statements of Fatal after `log := e.withFileLineNum()`, in order.
FatalStages == <<"emit", "release", "exit">>

\* Panic as it is in logger.go: the panic alone.
PanicNoEmit == <<"panic">>

\* The statements of Panic after `log := e.withFileLineNum()`, in order.
PanicStages == <<"emit", "panic">>

Done(stages) == Len(esc.hist) >= Len(stages)

NextStage(stages) == IF Done(stages) THEN "end" ELSE stages[Len(esc.hist) + 1]

\* The goroutine has not called Fatal or Panic. (What it does after it
\* recovered from a panic is not followed.)
CallerFree == esc.op = "none"

\* Entry into Fatal or Panic: the logger with the caller's location.
EscCall(op, e, depth, guarded) ==
    /\ CallerFree
    /\ esc' = [op |-> op, e |-> e, stackTraces |-> heap[e].stackTraces,
               log |-> withFileLineNum(e, depth, 1), ctx |-> EntryCtx(e),
               guarded |-> guarded, hist |-> <<>>, recs |-> <<>>, code |-> 0]
    /\ UNCHANGED poolVars

FatalCall(e, depth) == EscCall("Fatal", e, depth, FALSE)

PanicCall(e, depth, guarded) == EscCall("Panic", e, depth, guarded)

\* log.ErrorContext(e._ctx(), ...): with stack traces on, the message
\* carries the stack.
EscEmit(op, stages) ==
    /\ esc.op = op
    /\ NextStage(stages) = "emit"
    /\ esc' = [esc EXCEPT !.hist = Append(@, "emit"),
                          !.recs = Append(@, Rec("ERROR", esc.log, esc.ctx, esc.stackTraces))]
    /\ UNCHANGED poolVars

FatalEmit == EscEmit("Fatal", FatalStages)

PanicEmit == EscEmit("Panic", PanicStages)

\* e.Release() inside Fatal.
FatalRelease ==
    /\ esc.op = "Fatal"
    /\ NextStage(FatalStages) = "release"
    /\ heap' = [heap EXCEPT ![esc.e] = ResetEntry(heap[esc.e])]
    /\ pool' = PoolAfterPut(esc.e)
    /\ held' = Dropped(esc.e, 1)
    /\ esc' = [esc EXCEPT !.hist = Append(@, "release")]
    /\ UNCHANGED <<nalloc, stale, doubled, defaultLog, ret>>

\* e.Exit(1): os.Exit ends the process.
FatalExit ==
    /\ esc.op = "Fatal"
    /\ NextStage(FatalStages) = "exit"
    /\ esc' = [esc EXCEPT !.hist = Append(@, "exit"), !.code = 1]
    /\ UNCHANGED poolVars

\* panic(panicMsg): the goroutine starts to unwind.
PanicRaise ==
    /\ esc.op = "Panic"
    /\ NextStage(PanicStages) = "panic"
    /\ esc' = [esc EXCEPT !.hist = Append(@, "panic")]
    /\ UNCHANGED poolVars

Panicking == esc.hist # <<>> /\ esc.hist[Len(esc.hist)] = "panic"

\* A deferred recover() of an enclosing function stops the unwinding.
PanicRecover ==
    /\ Panicking
    /\ esc.guarded
    /\ esc' = [esc EXCEPT !.hist = Append(@, "recover")]
    /\ UNCHANGED poolVars

\* No function on the stack recovers: the runtime ends the process.
PanicCrash ==
    /\ Panicking
    /\ ~esc.guarded
    /\ esc' = [esc EXCEPT !.hist = Append(@, "crash"), !.code = 2]
    /\ UNCHANGED poolVars

\* ------------------------------------------------------------------ fan-out
\* slog levels: Debug, Info, Warn, Error.
Levels == {-4, 0, 4, 8}

\* A member handler: the least level it accepts, whether its Handle
\* returns an error, and the WithAttrs and WithGroup calls it was derived
\* by (none for a handler as registered).
Members == [min : Levels, fails : BOOLEAN, with : {<<>>}]

MemberEnabled(h, level) == level >= h.min

\* No method of the MultiHandler is under way.
MultiFree == mhCall.op = "none" \/ mhCall.result # "none"

\* m.extendHandler(h)
extendHandler(h) ==
    /\ MultiFree
    /\ Len(mh) < MaxMembers
    /\ mh' = Append(mh, h)
    /\ UNCHANGED <<mhCall, esc>>
    /\ UNCHANGED poolVars

\* MultiHandler.Enabled: the loop over the members, from member n on.
RECURSIVE EnabledFrom(_, _, _, _)
EnabledFrom(handlers, level, n, enabled) ==
    IF n > Len(handlers)
    THEN enabled
    ELSE EnabledFrom(handlers, level, n + 1,
                     IF MemberEnabled(handlers[n], level) THEN TRUE ELSE enabled)

\* An Enabled that asks the last member only.
LastEnabled(handlers, level) ==
    Len(handlers) > 0 /\ MemberEnabled(handlers[Len(handlers)], level)

MultiEnabled(handlers, level) == EnabledFrom(handlers, level, 1, FALSE)

Bool(x) == IF x THEN "true" ELSE "false"

\* m.Enabled(ctx, level)
Enabled(level) ==
    /\ MultiFree
    /\ mhCall' = [op |-> "Enabled", level |-> level, n |-> Len(mh), i |-> 0, invoked |-> <<>>,
                  result |-> Bool(MultiEnabled(mh, level))]
    /\ UNCHANGED <<mh, esc>>
    /\ UNCHANGED poolVars

\* m.Handle(ctx, r) is entered.
HandleCall(level) ==
    /\ MultiFree
    /\ mhCall' = [op |-> "Handle", level |-> level, n |-> Len(mh), i |-> 1, invoked |-> <<>>,
                  result |-> "none"]
    /\ UNCHANGED <<mh, esc>>
    /\ UNCHANGED poolVars

\* A loop that goes on to the next member whatever the last one returned.
AfterMemberGoOn(c, failed) == [c EXCEPT !.invoked = Append(@, c.i), !.i = @ + 1]

\* Handle, after member i returned err: return it, or go on.
AfterMember(c, failed) ==
    IF failed
    THEN [c EXCEPT !.invoked = Append(@, c.i), !.result = "err"]
    ELSE [c EXCEPT !.invoked = Append(@, c.i), !.i = @ + 1]

\* One turn of Handle's loop: err = h.Handle(ctx, r).
HandleMember ==
    /\ mhCall.op = "Handle"
    /\ mhCall.result = "none"
    /\ mhCall.i <= mhCall.n
    /\ mhCall' = AfterMember(mhCall, mh[mhCall.i].fails)
    /\ UNCHANGED <<mh, esc>>
    /\ UNCHANGED poolVars

\* The loop is over: return nil.
HandleReturn ==
    /\ mhCall.op = "Handle"
    /\ mhCall.result = "none"
    /\ mhCall.i > mhCall.n
    /\ mhCall' = [mhCall EXCEPT !.result = "nil"]
    /\ UNCHANGED <<mh, esc>>
    /\ UNCHANGED poolVars

\* ------------------------------------------------------------------ panic value
\* A message, as the pieces fmt reads it in: plain text, a %v verb, or
\* the escape %%.
MaxMsgLen == 3

MsgToken == {"x", "%v", "%%"}

Messages == UNION {[1..n -> MsgToken] : n \in 0..MaxMsgLen}

\* The fields given after the message: none, or one key and its value.
\* Their text is taken to hold no piece of the message.
FieldInputs == {<<>>, <<"key", "value">>}

\* fmt.Sprintf(format, operands...), from piece n on, `used` operands
\* consumed: text is copied, %% gives a percent sign, a verb formats the
\* next operand or reports that it is missing; operands left over are
\* reported at the end.
RECURSIVE SprintfFrom(_, _, _, _)
SprintfFrom(format, operands, n, used) ==
    IF n > Len(format)
    THEN IF used < Len(operands) THEN <<"%!(EXTRA)">> ELSE <<>>
    ELSE CASE format[n] = "%v" ->
                  IF used < Len(operands)
                  THEN <<operands[used + 1]>> \o SprintfFrom(format, operands, n + 1, used + 1)
                  ELSE <<"%!v(MISSING)">> \o SprintfFrom(format, operands, n + 1, used)
           [] format[n] = "%%" -> <<"%">> \o SprintfFrom(format, operands, n + 1, used)
           [] OTHER -> <<format[n]>> \o SprintfFrom(format, operands, n + 1, used)

Sprintf(format, operands) == SprintfFrom(format, operands, 1, 0)

\* Panic: fmt.Sprintf("%s\n%s", msg, debug.Stack())
formattedMsg(msg) == msg \o <<"\n", "[stack]">>

\* Panic: panicMsg as it is when panic is called. The fields are one
\* operand, the slice.
panicMsg(msg, args, stackTraces) ==
    LET base == IF stackTraces THEN formattedMsg(msg) ELSE msg
    IN IF Len(args) > 0
       THEN Sprintf(base \o <<" ", "%v">>, <<"[fields]">>)
       ELSE base

\* e.Panic(msg, args...) up to the panic: the value it raises.
PanicValue(msg, args, stackTraces) ==
    /\ call' = [op |-> "Panic", msg |-> msg, args |-> args,
                stackTraces |-> stackTraces, value |-> panicMsg(msg, args, stackTraces)]
    /\ UNCHANGED progVars

\* ------------------------------------------------------------------ context keys
MaxBindings == 3    \* values stored in one chain of contexts

\* The key with the name of the logger's key: the collision.
ctxValueSameAsLogger == ctxValueLogger

ctxValueRequestID == [type |-> "contextKeyType", name |-> "request_id"]

ctxValueTenancyData == [type |-> "contextKeyType", name |-> "tenancy_info"]

\* Request IDs and tenancy objects, numbered; 0 is the empty string and
\* the nil TenancyInfo.
RequestIDs == {1, 2}

Tenancies == {1}

ContextWithRequestID(ctx, requestID) ==
    WithValue(ctx, ctxValueRequestID, TypedValue("string", requestID))

GetRequestID(ctx) ==
    LET id == Value(ctx, ctxValueRequestID)
    IN IF id = NoValue THEN 0 ELSE IF id.type # "string" THEN 0 ELSE id.v

SetTenancy(ctx, tenancyInfo) ==
    WithValue(ctx, ctxValueTenancyData, TypedValue("TenancyInfo", tenancyInfo))

GetTenancy(ctx) ==
    LET info == Value(ctx, ctxValueTenancyData)
    IN IF info.type # "TenancyInfo" THEN 0 ELSE info.v

\* The context a request carries along, with what was last stored in it
\* and what Log last returned for it.
Carried ==
    IF call.op = "ctx"
    THEN call
    ELSE [op |-> "ctx", ctx |-> Background, logger |-> Nil, rid |-> 0, ten |-> 0,
          asked |-> FALSE, got |-> Nil]

Derive(c) ==
    /\ Len(Carried.ctx.vals) < MaxBindings
    /\ call' = [c EXCEPT !.asked = FALSE, !.got = Nil]
    /\ UNCHANGED progVars

StoreLogger(h) ==
    Derive([Carried EXCEPT !.ctx = ContextWithLogger(@, h), !.logger = h])

StoreRequestID(r) ==
    Derive([Carried EXCEPT !.ctx = ContextWithRequestID(@, r), !.rid = r])

StoreTenancy(t) ==
    Derive([Carried EXCEPT !.ctx = SetTenancy(@, t), !.ten = t])

\* Log(ctx) on the carried context, once a logger was stored in it.
LogCarried ==
    /\ call.op = "ctx"
    /\ call.logger # Nil
    /\ ~call.asked
    /\ Log(call.ctx)
    /\ call' = [call EXCEPT !.asked = TRUE, !.got = ret'.val]
    /\ UNCHANGED <<esc, mh, mhCall>>

\* ------------------------------------------------------------------ fan-out derivation
\* The arguments of WithAttrs and of WithGroup here, and the members of
\* the MultiHandlers derived from: handlers of two levels.
DeriveArgs == {"a1"}

DeriveMembers == {h \in Members : h.min \in {0, 8} /\ ~h.fails}

\* h.WithAttrs(attrs) or h.WithGroup(name) of a member: the member,
\* derived once more.
MemberDerived(h, kind, arg) == [h EXCEPT !.with = Append(@, <<kind, arg>>)]

\* A derivation that fills the receiver's own slice: hs := m.handlers.
hsIsReceivers(handlers) == "receiver"

\* hs := make([]slog.Handler, len(m.handlers)): the array hs lives in.
hsArray(handlers) == "made"

\* The loop of WithAttrs and of WithGroup, and the MultiHandler returned.
MultiDerive(kind, arg) ==
    LET hs == [i \in 1..Len(mh) |-> MemberDerived(mh[i], kind, arg)]
    IN /\ MultiFree
       /\ mh' = IF hsArray(mh) = "receiver" THEN hs ELSE mh
       /\ call' = [op |-> kind, arg |-> arg, from |-> mh, handlers |-> hs]
       /\ UNCHANGED <<mhCall, esc>>
       /\ UNCHANGED poolVars

\* m.WithAttrs(attrs)
WithAttrs(attrs) == MultiDerive("WithAttrs", attrs)

\* m.WithGroup(name)
WithGroup(name) == MultiDerive("WithGroup", name)

Derivations == {"WithAttrs", "WithGroup"}

\* extendHandler(h) on the MultiHandler that WithAttrs or WithGroup returned.
ExtendDerived(h) ==
    /\ call.op \in Derivations
    /\ Len(call.handlers) < MaxMembers
    /\ call' = [call EXCEPT !.handlers = Append(@, h)]
    /\ UNCHANGED progVars

\* ------------------------------------------------------------------ options
MaxOpts == 3        \* LogOptions structs allocated

\* DefaultLogOptions(): the struct it returns. A nil Output or Handler is
\* "nil"; the level is slog.LevelInfo.
DefaultLogOptions ==
    [Level |-> 0, AddSource |-> FALSE, TimeFormat |-> "DateTime", NoColor |-> FALSE,
     ShowStackTrace |-> FALSE, EnableTracing |-> FALSE, Output |-> "nil",
     Handler |-> "nil", HandlerCreator |-> "DefaultHandlerCreator"]

OptionMethods ==
    {"WithLevel", "WithAddSource", "WithTimeFormat", "WithNoColor", "WithStackTrace",
     "WithTracing", "WithOutput", "WithHandler", "WithHandlerCreator"}

\* The field each With* method of LogOptions assigns.
FieldSetBy(method) ==
    CASE method = "WithLevel" -> "Level"
      [] method = "WithAddSource" -> "AddSource"
      [] method = "WithTimeFormat" -> "TimeFormat"
      [] method = "WithNoColor" -> "NoColor"
      [] method = "WithStackTrace" -> "ShowStackTrace"
      [] method = "WithTracing" -> "EnableTracing"
      [] method = "WithOutput" -> "Output"
      [] method = "WithHandler" -> "Handler"
      [] method = "WithHandlerCreator" -> "HandlerCreator"

\* The arguments each method is called with here.
OptionArgs(method) ==
    CASE method = "WithLevel" -> {-4, 8}
      [] method \in {"WithAddSource", "WithNoColor", "WithStackTrace", "WithTracing"} -> BOOLEAN
      [] method = "WithTimeFormat" -> {"Kitchen"}
      [] method = "WithOutput" -> {"buffer"}
      [] method = "WithHandler" -> {"custom"}
      [] method = "WithHandlerCreator" -> {"jsonCreator"}

\* The LogOptions structs allocated so far (a *LogOptions is an index),
\* and for each the calls it was built by from the defaults.
OptsHeap ==
    IF call.op = "opts" THEN call ELSE [op |-> "opts", objs |-> <<>>, trail |-> <<>>, ret |-> 0]

\* DefaultLogOptions()
NewOptions ==
    /\ Len(OptsHeap.objs) < MaxOpts
    /\ call' = [OptsHeap EXCEPT !.objs = Append(@, DefaultLogOptions),
                                !.trail = Append(@, <<>>),
                                !.ret = Len(OptsHeap.objs) + 1]
    /\ UNCHANGED progVars

\* A method that writes through the receiver: clone := o.
cloneIsReceiver(objs, o) == o

\* clone := *o: the struct the method assigns to, a copy of the receiver.
optionsClone(objs, o) == Len(objs) + 1

\* o.With<Field>(v): copy the receiver, assign the field, return the copy.
WithOption(o, method, v) ==
    LET h == OptsHeap
        c == optionsClone(h.objs, o)
        objs == IF c > Len(h.objs) THEN Append(h.objs, h.objs[o]) ELSE h.objs
        trail == IF c > Len(h.objs) THEN Append(h.trail, h.trail[o]) ELSE h.trail
    IN /\ o \in 1..Len(h.objs)
       /\ Len(h.objs) < MaxOpts
       /\ call' = [h EXCEPT !.objs = [objs EXCEPT ![c][FieldSetBy(method)] = v],
                            !.trail = [trail EXCEPT ![c] = Append(@, <<FieldSetBy(method), v>>)],
                            !.ret = c]
       /\ UNCHANGED progVars

\* ------------------------------------------------------------------ sink resolution
\* The options NewLogger(ctx, opts *LogOptions) is called with here: the
\* defaults with any of level, output, handler and handler creator set,
\* the creator also to nil.
SinkOptions ==
    {[DefaultLogOptions EXCEPT !.Level = l, !.Output = w, !.Handler = h,
                               !.HandlerCreator = c] :
        l \in {0, 8}, w \in {"nil", "buffer"}, h \in {"nil", "custom"},
        c \in {"nil", "DefaultHandlerCreator", "jsonCreator"}}

\* slog.Level.String()
LevelName(level) ==
    CASE level = -4 -> "DEBUG" [] level = 0 -> "INFO" [] level = 4 -> "WARN" [] level = 8 -> "ERROR"

\* NewLogger: outputWriter
OptionsWriter(opts) ==
    IF opts.Output # "nil"
    THEN opts.Output
    ELSE IF opts.Level >= 8 THEN "stderr" ELSE "stdout"

\* The handler a creator makes on a writer: the default creator a tint
\* handler, the creator of the example a JSON handler.
Created(creator, writer, opts) ==
    [level |-> LevelName(opts.Level), out |-> writer, attrs |-> <<>>,
     handler |-> <<IF creator = "jsonCreator" THEN "json" ELSE "tint">>]

\* A resolution that asks for the handler creator first.
CreatorBeforeHandler(opts) ==
    IF opts.HandlerCreator # "nil"
    THEN Created(opts.HandlerCreator, OptionsWriter(opts), opts)
    ELSE IF opts.Handler # "nil"
         THEN [NilLog EXCEPT !.handler = <<opts.Handler>>]
         ELSE Created("DefaultHandlerCreator", OptionsWriter(opts), opts)

\* NewLogger: handler, and the logger slog.New makes of it.
ResolvedLogger(opts) ==
    IF opts.Handler # "nil"
    THEN [NilLog EXCEPT !.handler = <<opts.Handler>>]
    ELSE IF opts.HandlerCreator # "nil"
         THEN Created(opts.HandlerCreator, OptionsWriter(opts), opts)
         ELSE Created("DefaultHandlerCreator", OptionsWriter(opts), opts)

\* NewLogger(ctx, opts) with a *LogOptions.
NewLoggerFromOptions(ctx, opts) ==
    /\ \E b \in {x \in PoolGetChoices : MayIssue(x)} :
         LET log == ResolvedLogger(opts)
             e == NewEntry(ctx, log, opts.ShowStackTrace)
         IN /\ defaultLog' = log
            /\ pool' = PoolAfterGet(b)
            /\ nalloc' = IF b > nalloc THEN b ELSE nalloc
            /\ heap' = [heap EXCEPT ![b] = e]
            /\ held' = Issue(b, e)
            /\ ret' = Returned("NewLogger", b)
            /\ UNCHANGED <<stale, doubled>>
    /\ call' = [op |-> "NewLogger", opts |-> opts]
    /\ UNCHANGED <<esc, mh, mhCall>>

\* ------------------------------------------------------------------ handler composition
\* The options the Option functions of the handler tests leave NewLogger
\* with: a level and either nothing more, or WithLogHandler(custom) with
\* WithLogOutput(&buf) or without, with WithLogHandlerExclusive() or
\* without.
HandlerOptions ==
    {o \in [level : {"INFO", "ERROR"}, showStackTrace : {FALSE}, output : {"nil", "buffer"},
             handler : {"nil", "custom"}, exclusive : BOOLEAN] :
        o.handler = "nil" => (~o.exclusive /\ o.output = "nil")}

\* The handlers whose Handle reports an error, none or one of them: the
\* default handler returns what the Write of its output returns, the
\* caller's whatever it likes.
FailingSets == {{}, {"tint"}, {"custom"}}

\* The member a handler of the logger is to the MultiHandler: the default
\* handler accepts from the level of the options on, the handler of the
\* tests from Info on.
AsMember(name, log, failing) ==
    [min |-> IF name = "tint" /\ log.level = "ERROR" THEN 8 ELSE 0,
     fails |-> name \in failing, with |-> <<>>]

\* A Handle that returns after its first member.
HandleFirstOnly(c, handlers) ==
    IF c.n = 0
    THEN [c EXCEPT !.result = "nil"]
    ELSE [c EXCEPT !.invoked = <<1>>, !.result = IF handlers[1].fails THEN "err" ELSE "nil"]

\* MultiHandler.Handle, from entry to return.
RECURSIVE HandleRun(_, _)
HandleRun(c, handlers) ==
    IF c.result # "none"
    THEN c
    ELSE IF c.i > c.n
         THEN [c EXCEPT !.result = "nil"]
         ELSE HandleRun(AfterMember(c, handlers[c.i].fails), handlers)

\* NewLogger(ctx, opts...) of a caller that keeps what it asked for.
NewLoggerWith(ctx, opts) ==
    /\ NewLogger(ctx, opts)
    /\ call' = [op |-> "NewLogger", opts |-> opts, val |-> ret'.val, failing |-> {}]
    /\ UNCHANGED <<esc, mh, mhCall>>

\* e.Info(msg) down to the handlers: the logger asks Enabled and, if so,
\* Handle of its handler, whose members in `failing` report an error.
InfoHandled(e, failing) ==
    LET log == heap[e].log
        hs == [i \in 1..Len(log.handler) |-> AsMember(log.handler[i], log, failing)]
        entered == [op |-> "Handle", level |-> 0, n |-> Len(hs), i |-> 1,
                    invoked |-> <<>>, result |-> "none"]
    IN /\ call.op = "NewLogger"
       /\ Info(e)
       /\ mhCall' = IF MultiEnabled(hs, 0)
                    THEN HandleRun(entered, hs)
                    ELSE [entered EXCEPT !.op = "Enabled", !.result = "false"]
       /\ call' = [call EXCEPT !.failing = failing]
       /\ UNCHANGED <<esc, mh>>

\* ------------------------------------------------------------------ http
StatusOK == 200                            \* http.StatusOK
StatusInternalServerError == 500           \* const StatusInternalServerError

\* An http.ResponseWriter by what it has sent: the status code (0: none
\* yet) and the chunks of the body. The first WriteHeader counts, later
\* ones are ignored; a Write before any WriteHeader sends StatusOK first.
NoResponse == [code |-> 0, body |-> <<>>]

WriteHeader(w, code) == IF w.code = 0 THEN [w EXCEPT !.code = code] ELSE w

Write(w, chunk) == [WriteHeader(w, StatusOK) EXCEPT !.body = Append(@, chunk)]

\* MessageResponse(code, msg)
MessageResponse(code, msg) == [Code |-> code, JSON |-> [message |-> msg]]

\* An answer to a panic with the status of a success.
ProtectAnswerOK == MessageResponse(StatusOK, "Internal Server Error")

\* Protect: the response of the deferred function.
ProtectAnswer == MessageResponse(StatusInternalServerError, "Internal Server Error")

\* The logger NewLogger builds from the default options.
DefaultLogger ==
    [level |-> DefaultOpts.level, out |-> OutputWriter(DefaultOpts), attrs |-> <<>>,
     handler |-> defaultHandlerCreator(OutputWriter(DefaultOpts), DefaultOpts)]

\* Log(ctx) within a function that keeps the handle to itself: the
\* pointer the context carries, or none when Log builds a logger.
CtxLogger(ctx) == IF LogFound(ctx) THEN Value(ctx, ctxValueLogger).v ELSE Nil

\* The fields of the entry a method chain on Log(ctx) starts from: those
\* of the attached entry, or those NewLogger sets (in Log for the context
\* without a logger, in clone for the nil receiver).
ChainBase(ctx) ==
    IF CtxLogger(ctx) # Nil
    THEN cloneFields(heap[CtxLogger(ctx)])
    ELSE NewEntry(IF LogFound(ctx) THEN Background ELSE ctx, DefaultLogger, FALSE)

\* The entries Log(ctx).WithField(k1)...WithField(kn) takes from the pool,
\* in order, as filled: the one of Log's NewLogger if there is no logger
\* in ctx, then one clone per WithField.
RECURSIVE ChainFrom(_, _, _)
ChainFrom(e, keys, n) ==
    IF n > Len(keys)
    THEN <<>>
    ELSE <<Changed(e, SetLog(<<Attr(keys[n])>>))>>
         \o ChainFrom(Changed(e, SetLog(<<Attr(keys[n])>>)), keys, n + 1)

Chain(ctx, keys) ==
    (IF LogFound(ctx) THEN <<>> ELSE <<ChainBase(ctx)>>) \o ChainFrom(ChainBase(ctx), keys, 1)

\* logEntryPool.Get() for an entry nobody keeps: a pooled block, which is
\* filled and never put back, or a new one of New, which is garbage
\* afterwards and not counted among the blocks.
TempGet(s, e) ==
    {s} \cup {[pool |-> [s.pool EXCEPT ![b] = @ - 1], heap |-> [s.heap EXCEPT ![b] = e]] :
                b \in {x \in Block : s.pool[x] > 0}}

RECURSIVE TempGets(_, _, _)
TempGets(S, entries, n) ==
    IF n > Len(entries)
    THEN S
    ELSE TempGets(UNION {TempGet(s, entries[n]) : s \in S}, entries, n + 1)

\* The pool and the default logger after the method chains that took
\* `entries`, with a NewLogger among the calls (`built`) or without.
AfterChains(built, entries) ==
    /\ \E s \in TempGets({[pool |-> pool, heap |-> heap]}, entries, 1) :
         pool' = s.pool /\ heap' = s.heap
    /\ defaultLog' = IF built THEN DefaultLogger ELSE defaultLog
    /\ UNCHANGED <<nalloc, held, stale, doubled>>

\* The records Error or Panic (level ERROR) and Trace (DEBUG) hand to the
\* logger of entry e, called from a function with callers above it.
EntryRecs(level, e, chain) ==
    LET log == LoggerWith(e.log, <<FileAttr(CallerDepth - chain)>>)
        ctx == IF e.ctx = NilCtx THEN Background ELSE e.ctx
    IN (IF level = "ERROR" /\ e.stackTraces THEN <<Rec(level, log, ctx, TRUE)>> ELSE <<>>)
       \o <<Rec(level, log, ctx, FALSE)>>

\* No request is being served.
ProtectIdle == IF call.op = "Protect" THEN call.stage = "done" ELSE TRUE

\* The contexts of requests: without a logger, with a live one, with the
\* nil *LogEntry.
RequestContexts == {Background} \cup {ContextWithLogger(Background, p) : p \in Receivers}

\* h(w, req) for h := Protect(handler): the handler starts.
Serve(ctx, method) ==
    /\ ProtectIdle
    /\ call' = [op |-> "Protect", stage |-> "handler", ctx |-> ctx, method |-> method,
                w |-> NoResponse, before |-> NoResponse, r |-> "nil", recovered |-> FALSE,
                logged |-> <<>>]
    /\ UNCHANGED progVars

\* The handler sends the header, or a chunk of the body.
HandlerWrites(header) ==
    /\ call.op = "Protect" /\ call.stage = "handler"
    /\ call.w.body = <<>>
    /\ header => call.w.code = 0
    /\ call' = [call EXCEPT !.w = IF header THEN WriteHeader(@, StatusOK) ELSE Write(@, "chunk")]
    /\ UNCHANGED progVars

\* The handler returns: the deferred function finds nothing to recover.
HandlerReturns ==
    /\ call.op = "Protect" /\ call.stage = "handler"
    /\ call' = [call EXCEPT !.stage = "done", !.before = call.w]
    /\ UNCHANGED progVars

\* The handler panics: with panic(v), or in Log(req.Context()).Panic(msg),
\* which emits and panics, or fails on the nil receiver before it emits.
HandlerPanics(how) ==
    /\ call.op = "Protect" /\ call.stage = "handler"
    /\ IF how = "panic"
       THEN /\ call' = [call EXCEPT !.stage = "panicking", !.r = "oh noes!", !.before = call.w]
            /\ UNCHANGED progVars
       ELSE /\ AfterChains(~LogFound(call.ctx), Chain(call.ctx, <<>>))
            /\ IF LogFound(call.ctx) /\ CtxLogger(call.ctx) = Nil
               THEN /\ ret' = [op |-> "Panic", val |-> Nil, recs |-> <<>>]
                    /\ call' = [call EXCEPT !.stage = "panicking", !.r = "nil pointer dereference",
                                            !.before = call.w]
               ELSE /\ ret' = [op |-> "Panic", val |-> CtxLogger(call.ctx),
                               recs |-> <<EntryRecs("ERROR", ChainBase(call.ctx), 1)[1]>>]
                    /\ call' = [call EXCEPT !.stage = "panicking", !.r = "msg", !.before = call.w]
            /\ UNCHANGED <<esc, mh, mhCall>>

\* Protect's deferred function when recover() returns a value: the panic
\* is logged through Log(req.Context()).WithField("panic", r).Error, then
\* respond writes the answer: Log again, the header, a Trace through two
\* WithField unless the method is OPTIONS, the body.
Recovered ==
    /\ call.op = "Protect" /\ call.stage = "panicking"
    /\ LET logged == Chain(call.ctx, <<"panic">>)
           traced == IF call.method # "OPTIONS"
                     THEN Chain(call.ctx, <<"code", "bytes">>)
                     ELSE Chain(call.ctx, <<>>)
           recs == EntryRecs("ERROR", logged[Len(logged)], 1)
                   \o (IF call.method # "OPTIONS"
                       THEN EntryRecs("DEBUG", traced[Len(traced)], 2)
                       ELSE <<>>)
       IN /\ AfterChains(CtxLogger(call.ctx) = Nil, logged \o traced)
          /\ ret' = [op |-> "Protect", val |-> Nil, recs |-> recs]
          /\ call' = [call EXCEPT !.stage = "done", !.recovered = TRUE, !.logged = recs,
                                  !.w = Write(WriteHeader(@, ProtectAnswer.Code),
                                              ProtectAnswer.JSON)]
    /\ UNCHANGED <<esc, mh, mhCall>>

\* ------------------------------------------------------------------ levels
\* A string is the sequence of its characters. The letters of the level
\* names, small and capital, in the same order.
SmallLetters == <<"a", "b", "c", "d", "e", "f", "g", "i", "l", "n", "o", "p", "r", "t", "u", "w">>
CapitalLetters == <<"A", "B", "C", "D", "E", "F", "G", "I", "L", "N", "O", "P", "R", "T", "U", "W">>

\* unicode.ToLower and unicode.ToUpper of one character.
LowerChar(c) ==
    IF \E n \in 1..Len(CapitalLetters) : CapitalLetters[n] = c
    THEN SmallLetters[CHOOSE n \in 1..Len(CapitalLetters) : CapitalLetters[n] = c]
    ELSE c

UpperChar(c) ==
    IF \E n \in 1..Len(SmallLetters) : SmallLetters[n] = c
    THEN CapitalLetters[CHOOSE n \in 1..Len(SmallLetters) : SmallLetters[n] = c]
    ELSE c

\* strings.ToLower
ToLower(s) == [n \in 1..Len(s) |-> LowerChar(s[n])]

\* The three spellings ParseLevel lists of each name: "debug", "DEBUG",
\* "Debug".
Spellings(name) ==
    {name, [n \in 1..Len(name) |-> UpperChar(name[n])],
     [n \in 1..Len(name) |-> IF n = 1 THEN UpperChar(name[n]) ELSE name[n]]}

\* The names of the cases of ParseLevel's switch, by the level returned.
LevelNames ==
    [debug |-> {<<"d", "e", "b", "u", "g">>, <<"t", "r", "a", "c", "e">>},
     info |-> {<<"i", "n", "f", "o">>},
     warn |-> {<<"w", "a", "r", "n">>, <<"w", "a", "r", "n", "i", "n", "g">>},
     error |-> {<<"e", "r", "r", "o", "r">>, <<"f", "a", "t", "a", "l">>,
                <<"p", "a", "n", "i", "c">>}]

Listed(names) == UNION {Spellings(name) : name \in names}

\* A default case that reports the unknown string, as ParseLevel in
\* logger.go has it.
UnknownIsError == [level |-> 0, err |-> "unknown log level"]

\* ParseLevel: the default case.
UnknownLevel == [level |-> 0, err |-> "nil"]

\* ParseLevel(levelStr)
ParseLevel(levelStr) ==
    CASE levelStr \in Listed(LevelNames.debug) -> [level |-> -4, err |-> "nil"]
      [] levelStr \in Listed(LevelNames.info) -> [level |-> 0, err |-> "nil"]
      [] levelStr \in Listed(LevelNames.warn) -> [level |-> 4, err |-> "nil"]
      [] levelStr \in Listed(LevelNames.error) -> [level |-> 8, err |-> "nil"]
      [] OTHER -> UnknownLevel

\* The strings ParseLevel is called with here: every spelling in small
\* and capital letters of debug, info and warn, and strings that are no
\* level name in any spelling.
LevelStrings ==
    UNION {{s \in [1..Len(name) -> {name[n] : n \in 1..Len(name)}
                                     \cup {UpperChar(name[n]) : n \in 1..Len(name)}] :
               ToLower(s) = name} :
           name \in {<<"d", "e", "b", "u", "g">>, <<"i", "n", "f", "o">>, <<"w", "a", "r", "n">>}}
    \cup {<<>>, <<"i", "n", "f">>, <<"I", "N", "F">>, <<"b", "u", "g">>, <<"w", "a", "r", "n", "e", "d">>}

\* A caller parses a level string; it keeps the one before to compare.
ParseLevelCall(levelStr) ==
    /\ call' = [op |-> "ParseLevel", str |-> levelStr, res |-> ParseLevel(levelStr),
                prev |-> IF call.op = "ParseLevel"
                         THEN <<[str |-> call.str, res |-> call.res]>>
                         ELSE <<>>]
    /\ UNCHANGED progVars

\* ------------------------------------------------------------------ shared handle
\* The goroutines that emit through handles they share.
Threads == {"t1", "t2"}

\* The methods that emit or ask, with the level of the record: Log and
\* Logf are called here with the level Info and the background context.
EmitMethods ==
    [Debug |-> "DEBUG", Info |-> "INFO", Warn |-> "WARN", Error |-> "ERROR",
     Log |-> "INFO", Logf |-> "INFO", Enabled |-> "INFO"]

IdleThread == [m |-> "none", e |-> Nil, pc |-> "idle", log |-> NilLog, recs |-> <<>>]

\* The goroutines' positions; before the first call all are idle.
ThreadsNow == IF call.op = "emit" THEN call.t ELSE [t \in Threads |-> IdleThread]

ThreadsIdle == \A t \in Threads : ThreadsNow[t].pc \in {"idle", "done"}

\* An emission that keeps the logger it made in the handle.
EmitStoresLogger(e, log) == [heap EXCEPT ![e].log = log]

\* What an emission method writes of the heap: nothing.
EmitWrites(e, log) == heap

\* Goroutine t calls method m of handle e.
EmitBegin(t, m, e) ==
    /\ ThreadsNow[t].pc \in {"idle", "done"}
    /\ call' = [op |-> "emit",
                t |-> [ThreadsNow EXCEPT ![t] = [IdleThread EXCEPT !.m = m, !.e = e, !.pc = "read"]]]
    /\ UNCHANGED progVars

\* The method's first statement: Debug and Error make a logger with the
\* caller's location of e.log, the others take e.log as it is.
EmitRead(t) ==
    LET th == ThreadsNow[t]
        log == IF th.m \in {"Debug", "Error"}
               THEN withFileLineNum(th.e, 2, 1)
               ELSE heap[th.e].log
    IN /\ th.pc = "read"
       /\ heap' = EmitWrites(th.e, log)
       /\ call' = [call EXCEPT !.t[t].log = log, !.t[t].pc = "emit"]
       /\ UNCHANGED <<nalloc, pool, held, stale, doubled, defaultLog, ret, esc, mh, mhCall>>

\* The logger's level lets a record of this level through.
LoggerEnabled(log, level) == ~(log.level = "ERROR" /\ level # "ERROR")

\* The rest of the method: the records handed to the logger. Error hands
\* one more with stack traces on; Logf asks Enabled first; Enabled hands
\* none.
EmitDispatch(t) ==
    LET th == ThreadsNow[t]
        level == EmitMethods[th.m]
        ctx == IF th.m \in {"Log", "Logf"} THEN Background ELSE EntryCtx(th.e)
        recs == CASE th.m = "Enabled" -> <<>>
                  [] th.m = "Logf" ->
                       IF LoggerEnabled(heap[th.e].log, level)
                       THEN <<Rec(level, th.log, ctx, FALSE)>>
                       ELSE <<>>
                  [] th.m = "Error" ->
                       (IF heap[th.e].stackTraces THEN <<Rec(level, th.log, ctx, TRUE)>> ELSE <<>>)
                       \o <<Rec(level, th.log, ctx, FALSE)>>
                  [] OTHER -> <<Rec(level, th.log, ctx, FALSE)>>
    IN /\ th.pc = "emit"
       /\ call' = [call EXCEPT !.t[t].recs = recs, !.t[t].pc = "done"]
       /\ UNCHANGED progVars

\* ------------------------------------------------------------------ without the pool
\* The program with a logEntryPool that allocates on every Get and drops
\* what is Put, run next to the pooled one: fresh[b] lists, for the
\* handles the pooled program has on block b, the fields the same handle
\* has there, in a block of its own.
FreshNow ==
    IF call.op = "fresh"
    THEN call
    ELSE [op |-> "fresh", fresh |-> [b \in Block |-> <<>>], recs |-> <<>>]

\* The logger NewLogger builds from its options.
BuiltLogger(opts) ==
    [level |-> opts.level, out |-> OutputWriter(opts), attrs |-> <<>>,
     handler |-> defaultHandlerCreator(OutputWriter(opts), opts)]

\* The receiver's fields there; clone of the nil receiver is NewLogger.
FreshReceiver(e) ==
    IF e = Nil
    THEN NewEntry(Background, BuiltLogger(DefaultOpts), FALSE)
    ELSE FreshNow.fresh[e][1]

\* A call of the pooled program that returned the handle ret'.val, and
\* the same call there, which returns an entry with `fields`.
FreshIssued(e, fields) ==
    call' = IF ret'.val = e
            THEN [FreshNow EXCEPT !.recs = <<>>]
            ELSE [FreshNow EXCEPT !.fresh[ret'.val] = Append(@, fields), !.recs = <<>>]

BothNewLogger(ctx, opts) ==
    /\ NewLogger(ctx, opts)
    /\ FreshIssued(Nil, NewEntry(ctx, BuiltLogger(opts), opts.showStackTrace))
    /\ UNCHANGED <<esc, mh, mhCall>>

BothWith(e, args) ==
    /\ MayAdd(e, args)
    /\ WithAs("With", e, args)
    /\ FreshIssued(e, Changed(FreshReceiver(e), SetLog(args)))
    /\ UNCHANGED <<esc, mh, mhCall>>

BothWithContext(e, ctx) ==
    /\ WithContext(e, ctx)
    /\ FreshIssued(Nil, Changed(FreshReceiver(e), SetCtx(ctx)))
    /\ UNCHANGED <<esc, mh, mhCall>>

\* Release: there the handle is dropped and its block left as it is.
BothRelease(b, k) ==
    /\ Release(b, k, FALSE)
    /\ call' = [FreshNow EXCEPT !.recs = <<>>,
                   !.fresh[b] = SubSeq(@, 1, k - 1) \o SubSeq(@, k + 1, Len(@))]
    /\ UNCHANGED <<esc, mh, mhCall>>

BothInfo(e) ==
    /\ Info(e)
    /\ LET f == FreshNow.fresh[e][1]
       IN call' = [FreshNow EXCEPT !.recs =
                      <<Rec("INFO", f.log, IF f.ctx = NilCtx THEN Background ELSE f.ctx, FALSE)>>]
    /\ UNCHANGED <<esc, mh, mhCall>>

\* ------------------------------------------------------------------ derivation (C27)
\* The keys of an argument list.
KeysOf(args) == {args[n].k : n \in 1..Len(args)}

\* A With, WithField, WithFields or WithError call as its caller sees it:
\* the receiver, the keys it adds, and the blocks, the pool and the
\* handles as the call found them.
WithCall(e, keys) ==
    [op |-> "With", e |-> e, keys |-> keys,
     heap |-> heap, pool |-> pool, nalloc |-> nalloc, held |-> held]

\* ------------------------------------------------------------------ process default (C28)
\* A goroutine that is not inside NewLogger.
NotBuilding == [stage |-> "idle"]

\* The constructions in progress and the sink of the construction that
\* returned last; before the first construction there is none.
Builds ==
    IF call.op = "build"
    THEN call
    ELSE [op |-> "build", th |-> [t \in Threads |-> NotBuilding], done |-> NilLog]

\* A goroutine inside NewLogger after slog.SetDefault: the method the
\* construction serves, what it will put into the block, and whether no
\* other construction has run beside it.
Built(op, ctx, opts, upd, alone) ==
    [stage |-> "built", op |-> op, ctx |-> ctx, log |-> BuiltLogger(opts),
     stackTraces |-> opts.showStackTrace, upd |-> upd, alone |-> alone]

\* NewLogger(ctx, opts...) by goroutine t within method `op`, up to and
\* including slog.SetDefault(log).
BuildBegin(t, op, ctx, opts, upd) ==
    /\ Builds.th[t].stage = "idle"
    /\ defaultLog' = BuiltLogger(opts)
    /\ call' =
         [Builds EXCEPT
            !.th = [u \in Threads |->
                      IF u = t
                      THEN Built(op, ctx, opts, upd,
                                 \A o \in Threads \ {t} : Builds.th[o].stage = "idle")
                      ELSE IF @[u].stage = "built"
                           THEN [@[u] EXCEPT !.alone = FALSE]
                           ELSE @[u]]]
    /\ UNCHANGED <<heap, nalloc, pool, held, stale, doubled, ret, esc, mh, mhCall>>

\* A NewLogger that sets the default once more when it has its block.
DefaultSetOnReturn(t) == Builds.th[t].log

\* The default after the second half of NewLogger: as it was.
DefaultAfterGet(t) == defaultLog

\* The rest of NewLogger in goroutine t: take a block, fill it and return
\* it; the calling method then makes its change to it.
BuildEnd(t) ==
    /\ Builds.th[t].stage = "built"
    /\ \E b \in {x \in PoolGetChoices : MayIssue(x)} :
         LET c == Builds.th[t]
             e == Changed(NewEntry(c.ctx, c.log, c.stackTraces), c.upd)
         IN /\ pool' = PoolAfterGet(b)
            /\ nalloc' = IF b > nalloc THEN b ELSE nalloc
            /\ heap' = [heap EXCEPT ![b] = e]
            /\ held' = Issue(b, e)
            /\ ret' = Returned(c.op, b)
            /\ defaultLog' = DefaultAfterGet(t)
            /\ call' = [Builds EXCEPT !.th[t] = NotBuilding, !.done = c.log]
    /\ UNCHANGED <<stale, doubled, esc, mh, mhCall>>

\* ------------------------------------------------------------------ free list (C30)
\* RequestWithLogging(req): Log(req.Context()) with three WithField calls,
\* the last handle attached to the request's context and none released;
\* then Trace through the attached handle unless the method is OPTIONS.
RequestWithLogging(ctx, method) ==
    LET entries == Chain(ctx, <<"req.method", "req.path", "req.id">>)
    IN /\ AfterChains(CtxLogger(ctx) = Nil, entries)
       /\ ret' = [op |-> "RequestWithLogging", val |-> Nil,
                  recs |-> IF method # "OPTIONS"
                           THEN EntryRecs("DEBUG", entries[Len(entries)], 2)
                           ELSE <<>>]

\* A respond that releases the logger it got from the context.
respondReleasesLogger(ctx) ==
    IF CtxLogger(ctx) # Nil
    THEN [pool |-> PoolAfterPut(CtxLogger(ctx)),
          heap |-> [heap EXCEPT ![CtxLogger(ctx)] = ResetEntry(@)]]
    ELSE [pool |-> pool, heap |-> heap]

\* respond: the pool and the blocks after `logger := Log(req.Context())`
\* when the context carries a logger: as they were.
respondLogger(ctx) == [pool |-> pool, heap |-> heap]

\* respond(w, req, res): Log, then WithError and Error if res.JSON cannot
\* be marshalled, the header, a Trace through two WithField unless the
\* method is OPTIONS, the body.
respond(ctx, method, marshals) ==
    LET failed == IF marshals THEN <<>> ELSE ChainFrom(ChainBase(ctx), <<"err">>, 1)
        traced == IF method # "OPTIONS"
                  THEN ChainFrom(ChainBase(ctx), <<"code", "bytes">>, 1)
                  ELSE <<>>
        entries == (IF LogFound(ctx) THEN <<>> ELSE <<ChainBase(ctx)>>) \o failed \o traced
        res == IF marshals
               THEN MessageResponse(StatusOK, "ok")
               ELSE MessageResponse(StatusInternalServerError, "Internal Server Error")
    IN /\ \E s \in TempGets({respondLogger(ctx)}, entries, 1) :
             pool' = s.pool /\ heap' = s.heap
       /\ defaultLog' = IF ~LogFound(ctx) \/ (CtxLogger(ctx) = Nil /\ failed \o traced # <<>>)
                        THEN DefaultLogger
                        ELSE defaultLog
       /\ ret' = [op |-> "respond", val |-> Nil,
                  recs |-> (IF marshals THEN <<>> ELSE EntryRecs("ERROR", failed[1], 1))
                           \o (IF method # "OPTIONS"
                               THEN EntryRecs("DEBUG", traced[2], 2)
                               ELSE <<>>),
                  w |-> Write(WriteHeader(NoResponse, res.Code), res.JSON)]
       /\ UNCHANGED <<nalloc, held, stale, doubled>>

\* ------------------------------------------------------------------ next
\* Callers that keep the ownership discipline: a handle is released once,
\* by its holder, and not used afterwards.
Next ==
    /\ \/ \E opts \in OptInputs : NewLogger(Background, opts)
       \/ \E e \in Receivers, args \in ArgLists : With(e, args)
       \/ \E e \in Receivers, k \in AttrKey : WithField(e, k)
       \/ \E e \in Receivers : WithError(e)
       \/ \E e \in Receivers, fields \in SUBSET AttrKey : WithFields(e, fields)
       \/ \E e \in Receivers, ctx \in CtxInputs : WithContext(e, ctx)
       \/ \E b \in Block, k \in 1..MaxPooled : Release(b, k, FALSE)
       \/ ReleaseNil
       \/ \E e \in Emitters : Info(e)
    /\ UNCHANGED <<esc, mh, mhCall, call>>

Spec == Init /\ [][Next]_vars

\* Callers that may also release a handle a second time.
NextDouble ==
    /\ \/ \E opts \in OptInputs : NewLogger(Background, opts)
       \/ \E e \in Receivers, ctx \in CtxInputs : WithContext(e, ctx)
       \/ \E b \in Block, k \in 1..MaxPooled, keep \in BOOLEAN : Release(b, k, keep)
       \/ \E b \in Block : ReleaseAgain(b)
    /\ UNCHANGED <<esc, mh, mhCall, call>>

SpecDouble == Init /\ [][NextDouble]_vars

\* Callers that pass loggers through contexts.
NextCtx ==
    /\ \/ \E opts \in OptInputs : NewLogger(Background, opts)
       \/ \E e \in Receivers, k \in AttrKey : WithField(e, k)
       \/ \E b \in Block, k \in 1..MaxPooled : Release(b, k, FALSE)
       \/ \E ctx \in LogInputs : Log(ctx)
    /\ UNCHANGED <<esc, mh, mhCall, call>>

SpecCtx == Init /\ [][NextCtx]_vars

\* One goroutine that builds handles and calls Fatal or Panic.
NextEsc ==
    \/ /\ CallerFree
       /\ \/ \E opts \in OptInputs : NewLogger(Background, opts)
          \/ \E e \in Emitters, k \in AttrKey : WithField(e, k)
          \/ \E b \in Block, k \in 1..MaxPooled : Release(b, k, FALSE)
       /\ UNCHANGED <<esc, mh, mhCall, call>>
    \/ /\ \/ \E e \in Emitters, d \in StackDepths : FatalCall(e, d)
          \/ \E e \in Emitters, d \in StackDepths, g \in BOOLEAN : PanicCall(e, d, g)
          \/ FatalEmit
          \/ FatalRelease
          \/ FatalExit
          \/ PanicEmit
          \/ PanicRaise
          \/ PanicRecover
          \/ PanicCrash
       /\ UNCHANGED <<mh, mhCall, call>>

SpecEsc == Init /\ [][NextEsc]_vars

\* A MultiHandler that is given members and is then asked and dispatched to.
NextMulti ==
    /\ \/ \E h \in Members : extendHandler(h)
       \/ \E level \in Levels : Enabled(level)
       \/ \E level \in Levels : HandleCall(level)
       \/ HandleMember
       \/ HandleReturn
    /\ UNCHANGED call

SpecMulti == Init /\ [][NextMulti]_vars

\* Callers of Panic, for the value the panic carries.
NextPanicValue ==
    \E msg \in Messages, args \in FieldInputs, st \in BOOLEAN : PanicValue(msg, args, st)

SpecPanicValue == Init /\ [][NextPanicValue]_vars

\* A request that stores a logger, a request ID and tenancy data in its
\* context, in any order, and asks for the logger.
NextKeys ==
    \/ \E h \in Block : StoreLogger(h)
    \/ \E r \in RequestIDs : StoreRequestID(r)
    \/ \E t \in Tenancies : StoreTenancy(t)
    \/ LogCarried

SpecKeys == Init /\ [][NextKeys]_vars

\* One goroutine that builds handles and emits through them.
NextEmit ==
    /\ \/ \E opts \in OptInputs : NewLogger(Background, opts)
       \/ \E e \in Emitters, k \in AttrKey : WithField(e, k)
       \/ \E b \in Block, k \in 1..MaxPooled : Release(b, k, FALSE)
       \/ \E e \in Emitters : Info(e)
       \/ \E e \in Emitters : Warn(e)
       \/ \E e \in Emitters, d \in StackDepths : Debug(e, d)
       \/ \E e \in Emitters, d \in StackDepths : Trace(e, d)
       \/ \E e \in Emitters, d \in StackDepths : Error(e, d)
    /\ UNCHANGED <<esc, mh, mhCall, call>>

SpecEmit == Init /\ [][NextEmit]_vars

\* A MultiHandler that is given members and derived from, and whose
\* derivation is given members.
NextDerive ==
    \/ \E h \in DeriveMembers : extendHandler(h) /\ UNCHANGED call
    \/ \E attrs \in DeriveArgs : WithAttrs(attrs)
    \/ \E name \in DeriveArgs : WithGroup(name)
    \/ \E h \in DeriveMembers : ExtendDerived(h)

SpecDerive == Init /\ [][NextDerive]_vars

\* Callers that build options values from the defaults.
NextOpts ==
    \/ NewOptions
    \/ \E o \in 1..MaxOpts, method \in OptionMethods :
          \E v \in OptionArgs(method) : WithOption(o, method, v)

SpecOpts == Init /\ [][NextOpts]_vars

\* Callers that build loggers from a LogOptions value and emit.
NextSink ==
    \/ \E opts \in SinkOptions : NewLoggerFromOptions(Background, opts)
    \/ /\ \/ \E b \in Block, k \in 1..MaxPooled : Release(b, k, FALSE)
          \/ \E e \in Emitters : Info(e)
       /\ UNCHANGED <<esc, mh, mhCall, call>>

SpecSink == Init /\ [][NextSink]_vars

\* Callers that build loggers with handler options and emit through them.
NextHandlers ==
    \/ \E opts \in HandlerOptions : NewLoggerWith(Background, opts)
    \/ \E e \in Emitters, failing \in FailingSets : InfoHandled(e, failing)
    \/ /\ \E b \in Block, k \in 1..MaxPooled : Release(b, k, FALSE)
       /\ UNCHANGED <<esc, mh, mhCall, call>>

SpecHandlers == Init /\ [][NextHandlers]_vars

\* A server behind Protect: loggers are built and released between
\* requests, a request is served from the call of the wrapped handler to
\* the return of the wrapper.
NextProtect ==
    \/ /\ ProtectIdle
       /\ \/ \E opts \in OptInputs : NewLogger(Background, opts)
          \/ \E b \in Block, k \in 1..MaxPooled : Release(b, k, FALSE)
       /\ UNCHANGED <<esc, mh, mhCall, call>>
    \/ \E ctx \in RequestContexts, method \in {"GET", "OPTIONS"} : Serve(ctx, method)
    \/ \E header \in BOOLEAN : HandlerWrites(header)
    \/ HandlerReturns
    \/ \E how \in {"panic", "Panic"} : HandlerPanics(how)
    \/ Recovered

SpecProtect == Init /\ [][NextProtect]_vars

NextLevel == \E levelStr \in LevelStrings : ParseLevelCall(levelStr)

SpecLevel == Init /\ [][NextLevel]_vars

\* Goroutines that emit through live handles they share; handles are
\* built and derived while no emission is under way.
NextShared ==
    \/ /\ ThreadsIdle
       /\ \/ \E opts \in OptInputs : NewLogger(Background, opts)
          \/ \E e \in Emitters : MayAdd(e, <<Attr("g1")>>) /\ WithField(e, "g1")
       /\ call' = [op |-> "none"]
       /\ UNCHANGED <<esc, mh, mhCall>>
    \/ \E t \in Threads, m \in DOMAIN EmitMethods, e \in Emitters : EmitBegin(t, m, e)
    \/ \E t \in Threads : EmitRead(t)
    \/ \E t \in Threads : EmitDispatch(t)

SpecShared == Init /\ [][NextShared]_vars

\* Callers that keep the ownership discipline, on both programs.
NextBoth ==
    \/ \E opts \in OptInputs : BothNewLogger(Background, opts)
    \/ \E e \in Receivers, k \in AttrKey : BothWith(e, <<Attr(k)>>)
    \/ \E e \in Receivers : BothWith(e, <<>>)
    \/ \E e \in Receivers : BothWithContext(e, OtherCtx)
    \/ \E b \in Block, k \in 1..MaxPooled : BothRelease(b, k)
    \/ \E e \in Emitters : BothInfo(e)

SpecBoth == Init /\ [][NextBoth]_vars

\* Callers that derive handles, seen call by call.
NextWith ==
    /\ \/ /\ \E opts \in OptInputs : NewLogger(Background, opts)
          /\ call' = [op |-> "none"]
       \/ \E e \in Receivers, args \in ArgLists :
             With(e, args) /\ call' = WithCall(e, KeysOf(args))
       \/ \E e \in Receivers, k \in AttrKey :
             WithField(e, k) /\ call' = WithCall(e, {k})
       \/ \E e \in Receivers :
             WithError(e) /\ call' = WithCall(e, {ErrAttr.k})
       \/ \E e \in Receivers, fields \in SUBSET AttrKey :
             WithFields(e, fields) /\ call' = WithCall(e, fields)
       \/ /\ \E e \in Receivers : WithContext(e, OtherCtx)
          /\ call' = [op |-> "none"]
       \/ /\ \E b \in Block, k \in 1..MaxPooled : Release(b, k, FALSE)
          /\ call' = [op |-> "none"]
    /\ UNCHANGED <<esc, mh, mhCall>>

SpecWith == Init /\ [][NextWith]_vars

\* Goroutines that construct loggers side by side, and callers that use
\* the handles.
NextDefault ==
    \/ \E t \in Threads, opts \in OptInputs :
          BuildBegin(t, "NewLogger", Background, opts, NoChange)
    \/ \E t \in Threads : BuildBegin(t, "Log", Background, DefaultOpts, NoChange)
    \/ \E t \in Threads :
          BuildBegin(t, "With", Background, DefaultOpts, SetLog(<<Attr("g1")>>))
    \/ \E t \in Threads : BuildEnd(t)
    \/ /\ \/ \E e \in Emitters : WithField(e, "g1")
          \/ \E b \in Block, k \in 1..MaxPooled : Release(b, k, FALSE)
          \/ \E e \in Emitters : Info(e)
       /\ UNCHANGED <<esc, mh, mhCall, call>>

SpecDefault == Init /\ [][NextDefault]_vars

\* No request has been handled yet.
NoRequestYet == call.op = "none" /\ ret.op \notin {"RequestWithLogging", "respond"}

\* One goroutine that builds and uses handles, then handles one request
\* (attaches a logger to it, answers it, or serves it through Protect with
\* a handler that panics), and ends in Fatal or Panic.
NextPool ==
    \/ /\ CallerFree /\ NoRequestYet
       /\ \/ \E opts \in OptInputs : NewLogger(Background, opts)
          \/ \E e \in Emitters : WithField(e, "g1")
          \/ \E e \in Emitters : WithContext(e, OtherCtx)
          \/ \E ctx \in RequestContexts : Log(ctx)
          \/ \E e \in Emitters : Info(e)
          \/ \E b \in Block, k \in 1..MaxPooled : Release(b, k, FALSE)
          \/ \E ctx \in RequestContexts : RequestWithLogging(ctx, "GET")
          \/ \E ctx \in RequestContexts, marshals \in BOOLEAN :
                respond(ctx, "GET", marshals)
       /\ UNCHANGED <<esc, mh, mhCall, call>>
    \/ /\ CallerFree
       /\ \/ \E ctx \in RequestContexts : NoRequestYet /\ Serve(ctx, "GET")
          \/ HandlerPanics("panic")
          \/ Recovered
    \/ /\ ProtectIdle
       /\ \/ \E e \in Emitters : FatalCall(e, MaxDepth)
          \/ \E e \in Emitters : PanicCall(e, MaxDepth, TRUE)
          \/ FatalEmit
          \/ FatalRelease
          \/ FatalExit
          \/ PanicEmit
          \/ PanicRaise
          \/ PanicRecover
       /\ UNCHANGED <<mh, mhCall, call>>

SpecPool == Init /\ [][NextPool]_vars

\* ------------------------------------------------------------------ properties
IsPrefix(s, t) == Len(s) <= Len(t) /\ \A n \in 1..Len(s) : s[n] = t[n]

Last(s) == s[Len(s)]

HasKey(log, k) == \E n \in 1..Len(log.attrs) : log.attrs[n].k = k

\* C1: a With, WithField, WithFields or WithError call, on a handle or on
\* one derived from it, leaves the sink, the context and the stack-trace
\* flag of every handle held before the call as they were issued, and a
\* record emitted through a handle goes to that handle's sink as issued:
\* it carries the attributes of that handle and no others.
C1_Step ==
    /\ \A b \in Block : held[b] # <<>> =>
          /\ cloneFields(heap[b]) = cloneFields(held[b][1])
          /\ ret'.op = "With" => heap'[b] = heap[b] /\ held'[b] = held[b]
    /\ ret'.op = "Info" =>
          /\ Len(ret'.recs) = 1
          /\ ret'.recs[1].log = held[ret'.val][1].log
          /\ UNCHANGED <<heap, held>>

C1_DerivedHandlesIsolated == [][C1_Step]_vars

\* A record went out through a handle while a handle with more
\* attributes is held, and the record carries the first handle's only.
C1_Witness ==
    /\ ret.op = "Info"
    /\ \E c \in Block :
          /\ c # ret.val
          /\ held[c] # <<>>
          /\ Len(heap[c].log.attrs) > Len(heap[ret.val].log.attrs)
          /\ IsPrefix(heap[ret.val].log.attrs, heap[c].log.attrs)
          /\ ret.recs[1].log.attrs = heap[ret.val].log.attrs
          /\ ret.recs[1].log.attrs # heap[c].log.attrs

\* C2: once some handle has been released twice, every handle issued
\* afterwards still keeps the context, sink and flag it was issued with,
\* and no two unreleased handles are the same block.
C2_IntactAfterDoubleRelease ==
    \A b \in Block : \A k \in 1..Len(held[b]) :
        held[b][k].after2 =>
            /\ cloneFields(heap[b]) = cloneFields(held[b][k])
            /\ Len(held[b]) = 1

\* C3: when every handle is released at most once and not used after its
\* release, no block is checked out to two handles at a time, and no
\* block is in the pool while a handle on it is held.
C3_ExclusiveOwnership ==
    \A b \in Block :
        /\ Len(held[b]) <= 1
        /\ ~(pool[b] > 0 /\ held[b] # <<>>)
        /\ pool[b] <= 1

\* A block taken back out of the pool is held, while another is pooled.
C3_Witness ==
    \E b, c \in Block :
        /\ b # c
        /\ ret.op \in {"NewLogger", "With", "WithContext"}
        /\ ret.val = b
        /\ held[b] # <<>>
        /\ nalloc = NBlocks
        /\ pool[c] > 0

\* C4: Log(ctx) returns a non-nil handle: when ctx carries no value
\* under the logger key, when it carries a value of another type, and
\* when it carries a *LogEntry, whatever that pointer is.
C4_LogNeverNil == ret.op = "Log" => ret.val # Nil

\* C5: MultiHandler.Handle calls its members in registration order, each
\* at most once; the first error ends the loop and is the result; with
\* no error every member is called and the result is nil.
C5_HandleInOrder ==
    mhCall.op = "Handle" =>
        /\ Len(mhCall.invoked) <= mhCall.n
        /\ \A k \in 1..Len(mhCall.invoked) : mhCall.invoked[k] = k
        /\ \A k \in 1..(Len(mhCall.invoked) - 1) : ~mh[k].fails
        /\ mhCall.result = "err" =>
              mhCall.invoked # <<>> /\ mh[Last(mhCall.invoked)].fails
        /\ mhCall.result = "nil" =>
              /\ Len(mhCall.invoked) = mhCall.n
              /\ \A k \in 1..mhCall.n : ~mh[k].fails
        /\ mhCall.result = "none" => mhCall.i = Len(mhCall.invoked) + 1

\* Handle returned the error of the first of two members, and the
\* second was not called.
C5_Witness ==
    /\ mhCall.op = "Handle"
    /\ mhCall.n = 2
    /\ mhCall.result = "err"
    /\ mhCall.invoked = <<1>>

\* C6: MultiHandler.Enabled(level) is true exactly when some member is
\* enabled at that level; with no members it is false.
C6_EnabledIsAny ==
    mhCall.op = "Enabled" =>
        mhCall.result = Bool(\E k \in 1..mhCall.n : MemberEnabled(mh[k], mhCall.level))

\* Enabled answered true for a first member when the last is disabled.
C6_Witness ==
    /\ mhCall.op = "Enabled"
    /\ mhCall.n = 2
    /\ mhCall.result = "true"
    /\ MemberEnabled(mh[1], mhCall.level)
    /\ ~MemberEnabled(mh[2], mhCall.level)

\* C7: With() without arguments and WithFields of an empty map return
\* the receiver itself, take no block from the pool and write no block.
C7_Step ==
    \A e \in Receivers :
        (With(e, <<>>) \/ WithFields(e, {})) =>
            ret'.val = e /\ UNCHANGED <<heap, nalloc, pool, held>>

C7_EmptyWithIsIdentity == [][C7_Step]_vars

\* A With without arguments returned a held handle.
C7_Witness ==
    /\ ret.op = "With"
    /\ ret.val \in Block
    /\ held[ret.val] # <<>>
    /\ heap[ret.val].log.attrs = <<>>

\* C8: Release resets the context, the sink and the flag of the block
\* before it puts it into the pool: when handles are released at most
\* once, every block in the pool has all three zeroed.
C8_PooledBlocksZeroed ==
    \A b \in Block : pool[b] > 0 => heap[b] = ZeroEntry

\* A block that carried a context and a sink is in the pool after Release.
C8_Witness ==
    /\ ret.op = "Release"
    /\ \E b \in Block : pool[b] > 0 /\ b <= nalloc /\ heap[b] = ZeroEntry

C10_PanicSequence ==
    esc.op = "Panic" =>
        /\ \/ IsPrefix(esc.hist, <<"emit", "panic", "recover">>)
           \/ IsPrefix(esc.hist, <<"emit", "panic", "crash">>)
        /\ esc.recs = IF esc.hist = <<>>
                      THEN <<>>
                      ELSE <<Rec("ERROR", esc.log, esc.ctx, esc.stackTraces)>>
        /\ Len(esc.hist) = 3 => (Last(esc.hist) = "recover" <=> esc.guarded)
        /\ esc.code # 0 => Last(esc.hist) = "crash"
        /\ held[esc.e] # <<>>

\* A panic raised after the record went out was recovered by the caller.
C10_Witness ==
    /\ esc.op = "Panic"
    /\ esc.hist = <<"emit", "panic", "recover">>
    /\ Len(esc.recs) = 1
    /\ esc.code = 0

Contains(s, sub) ==
    \E i \in 0..(Len(s) - Len(sub)) : SubSeq(s, i + 1, i + Len(sub)) = sub

\* C11: whatever the message and the fields, the value of the panic that
\* Panic raises contains the message as a literal substring.
C11_PanicValueHasMsg ==
    call.op = "Panic" => Contains(call.value, call.msg)

\* C12: Log on a context in which ContextWithLogger stored a non-nil
\* handle returns that handle, whatever request ID or tenancy data was
\* stored before or after it; and what is read back under each of the
\* three keys is what was last stored under that key.
C12_KeysDoNotCollide ==
    call.op = "ctx" =>
        /\ call.logger # Nil =>
              /\ LogFound(call.ctx)
              /\ Value(call.ctx, ctxValueLogger).v = call.logger
        /\ call.asked => call.got = call.logger
        /\ GetRequestID(call.ctx) = call.rid
        /\ GetTenancy(call.ctx) = call.ten
        /\ call.asked => \A b \in Block : heap[b] = ZeroEntry

\* Log returned the stored handle from a context in which a request ID
\* and tenancy data were stored after it.
C12_Witness ==
    /\ call.op = "ctx"
    /\ call.asked
    /\ call.got \in Block
    /\ Len(call.ctx.vals) = 3
    /\ call.ctx.vals[1].key = ctxValueLogger
    /\ GetRequestID(call.ctx) # 0
    /\ GetTenancy(call.ctx) # 0

\* The record carries a stack trace, as an attribute or in its message.
HasStack(rec) == rec.stack \/ HasKey(rec.log, "stacktrace")

\* C13: with stack traces on, the record Error emits carries a stack
\* trace; with stack traces off, no record Error emits carries one.
C13_ErrorStackTrace ==
    ret.op = "Error" =>
        /\ ret.recs # <<>>
        /\ \A n \in 1..Len(ret.recs) : HasStack(ret.recs[n]) <=> heap[ret.val].stackTraces

\* C14: the handle WithError returns has the error attribute on its
\* sink, and has a stack-trace attribute exactly when the receiver's
\* stack-trace flag is on.
C14_WithErrorStack ==
    \A b \in Block :
        (held[b] # <<>> /\ HasKey(heap[b].log, "err")) =>
            (HasKey(heap[b].log, "stacktrace") <=> heap[b].stackTraces)

\* The frames the location attributes of a logger name.
FileFrames(log) == {log.attrs[n].v : n \in {m \in 1..Len(log.attrs) : log.attrs[m].k = "file"}}

\* C15: the location Debug and Error attach is that of the frame that
\* called them, frame 1 above the method, also for a call made through
\* Trace; Info and Warn attach no location.
C15_ImmediateCallSite ==
    /\ ret.op \in {"Debug", "Error", "Trace"} =>
          \A n \in 1..Len(ret.recs) : FileFrames(ret.recs[n].log) = {1}
    /\ ret.op \in {"Info", "Warn"} =>
          \A n \in 1..Len(ret.recs) : FileFrames(ret.recs[n].log) = {}

\* C16: WithContext(ctx2) on a held handle h returns a handle on another
\* block whose context is ctx2 and whose sink and stack-trace flag are
\* h's; the context, sink and flag of h stay as they were.
C16_Step ==
    \A e \in Emitters, ctx2 \in CtxInputs :
        WithContext(e, ctx2) =>
            /\ ret'.val \in Block \ {e}
            /\ heap'[ret'.val] =
                  [ctx |-> ctx2, log |-> heap[e].log, stackTraces |-> heap[e].stackTraces]
            /\ heap'[e] = heap[e]
            /\ held'[e] = held[e]

C16_WithContextDerives == [][C16_Step]_vars

\* WithContext returned a handle with another context than that of a
\* held handle with the same sink and the stack-trace flag on.
C16_Witness ==
    /\ ret.op = "WithContext"
    /\ ret.val \in Block
    /\ heap[ret.val].stackTraces
    /\ \E e \in Block \ {ret.val} :
          /\ held[e] # <<>>
          /\ heap[e].log = heap[ret.val].log
          /\ heap[e].stackTraces
          /\ heap[e].ctx # heap[ret.val].ctx

\* C17: the MultiHandler that WithAttrs or WithGroup returns has as many
\* members as the receiver had, in the same order, the i-th being the
\* receiver's i-th member derived by the same call; the receiver's list
\* is as it was, and members added afterwards to either list do not
\* appear in the other.
C17_DerivationIsMemberwise ==
    call.op \in Derivations =>
        /\ Len(call.handlers) >= Len(call.from)
        /\ \A i \in 1..Len(call.from) :
              call.handlers[i] =
                  [call.from[i] EXCEPT !.with = Append(@, <<call.op, call.arg>>)]
        /\ IsPrefix(call.from, mh)
        /\ \A i \in 1..Len(mh) : mh[i].with = <<>>
        /\ \A i \in (Len(call.from) + 1)..Len(call.handlers) : call.handlers[i].with = <<>>

\* A MultiHandler of two different members was derived with WithGroup.
C17_Witness ==
    /\ call.op = "WithGroup"
    /\ Len(call.from) = 2
    /\ call.from[1] # call.from[2]
    /\ Len(call.handlers) = 2
    /\ mh = call.from

\* The value the calls of a trail leave in a field: that of the last call
\* for the field, the default when there is none.
RECURSIVE LastSet(_, _, _)
LastSet(trail, field, n) ==
    IF n = 0
    THEN DefaultLogOptions[field]
    ELSE IF trail[n][1] = field THEN trail[n][2] ELSE LastSet(trail, field, n - 1)

\* C18: a With* method of LogOptions returns a new options value that
\* differs from the receiver in the named field only, and changes no
\* options value that exists: every value has in each field what the
\* last call for that field on its way from the defaults set.
C18_Step ==
    call'.op = "opts" =>
        /\ \A i \in 1..Len(OptsHeap.objs) : call'.objs[i] = OptsHeap.objs[i]
        /\ call'.ret = Len(OptsHeap.objs) + 1
        /\ \A i \in 1..Len(call'.objs) : \A f \in DOMAIN DefaultLogOptions :
              call'.objs[i][f] = LastSet(call'.trail[i], f, Len(call'.trail[i]))

C18_OptionsAreValues == [][C18_Step]_vars

\* Two options values were derived from the defaults by different
\* methods; each has its own field set and the defaults are as they were.
C18_Witness ==
    /\ call.op = "opts"
    /\ Len(call.objs) = 3
    /\ call.objs[1] = DefaultLogOptions
    /\ call.trail[2] = <<<<"Level", 8>>>>
    /\ call.trail[3] = <<<<"ShowStackTrace", TRUE>>>>
    /\ call.objs[2].Level = 8 /\ ~call.objs[2].ShowStackTrace
    /\ call.objs[3].Level = 0 /\ call.objs[3].ShowStackTrace

Reached == {heap[ret.val].log.handler[mhCall.invoked[i]] : i \in 1..Len(mhCall.invoked)}

\* An enabled Info through the logger that the last NewLogger built with
\* a custom handler.
CustomInfo ==
    /\ ret.op = "Info"
    /\ call.op = "NewLogger"
    /\ call.val = ret.val
    /\ call.opts.handler # "nil"
    /\ mhCall.op = "Handle"

PanicServed == call.op = "Protect" /\ call.stage = "done" /\ call.r # "nil"

\* The wrapper logged the panic: an error record with the panic value.
PanicLogged ==
    \E n \in 1..Len(call.logged) :
        call.logged[n].level = "ERROR" /\ HasKey(call.logged[n].log, "panic")

KnownNames == LevelNames.debug \cup LevelNames.info \cup LevelNames.warn \cup LevelNames.error

C23_CaseInsensitive ==
    (call.op = "ParseLevel" /\ call.prev # <<>>) =>
        (ToLower(call.str) = ToLower(call.prev[1].str) =>
            call.res.level = call.prev[1].res.level)

\* A logger without the attribute of the caller's location.
WithoutFile(log) == [log EXCEPT !.attrs = SelectSeq(@, LAMBDA a : a.k # "file")]

\* C24: Debug, Info, Warn, Error, Log, Logf and Enabled write no field of
\* the handle: while goroutines emit through handles they share, in any
\* interleaving, every held handle has the context, the sink and the
\* stack-trace flag it was issued with, and every record is handed to the
\* handle's sink with the handle's attributes (and the caller's location,
\* which Debug and Error add to the record's logger, not to the handle).
C24_EmissionsWriteNothing ==
    /\ \A b \in Block : held[b] # <<>> => cloneFields(heap[b]) = cloneFields(held[b][1])
    /\ \A t \in Threads :
          LET th == ThreadsNow[t]
          IN /\ th.pc = "emit" => WithoutFile(th.log) = held[th.e][1].log
             /\ \A n \in 1..Len(th.recs) :
                   /\ WithoutFile(th.recs[n].log) = held[th.e][1].log
                   /\ Len(th.recs[n].log.attrs) <= Len(held[th.e][1].log.attrs) + 1

\* Two goroutines emitted through the same handle, which has an
\* attribute, one of them with Error, and both records carry it.
C24_Witness ==
    /\ call.op = "emit"
    /\ call.t["t1"].pc = "done" /\ call.t["t2"].pc = "done"
    /\ call.t["t1"].e = call.t["t2"].e
    /\ call.t["t1"].m = "Error" /\ call.t["t2"].m = "Info"
    /\ call.t["t1"].recs # <<>> /\ call.t["t2"].recs # <<>>
    /\ HasKey(call.t["t2"].recs[1].log, "g1")
    /\ HasKey(call.t["t1"].recs[1].log, "g1")

\* C25: when the MultiHandler handles a record of a level it reported
\* enabled, the record is handed to those members only whose own Enabled
\* accepts the level (a member handed a record writes it: the handlers of
\* slog and tint filter in Enabled, which their caller is to ask, not in
\* Handle).
C25_OnlyAcceptingMembersEmit ==
    (mhCall.op = "Handle" /\ MultiEnabled(SubSeq(mh, 1, mhCall.n), mhCall.level)) =>
        \A n \in 1..Len(mhCall.invoked) :
            MemberEnabled(mh[mhCall.invoked[n]], mhCall.level)

\* C26: under the ownership discipline the pooled program and the one
\* that allocates on every NewLogger, With* and WithContext and ignores
\* Release agree: after every sequence of calls they have the same live
\* handles, each with the same context, sink and stack-trace flag in
\* both, and an emission hands the same records to the same sink in both.
C26_PoolIsInvisible ==
    call.op = "fresh" =>
       /\ \A b \in Block :
             /\ Len(held[b]) = Len(call.fresh[b])
             /\ \A k \in 1..Len(call.fresh[b]) : cloneFields(heap[b]) = call.fresh[b][k]
       /\ ret.op = "Info" => ret.recs = call.recs

\* A block went through the pool: the first block New made, which a
\* handle without a receiver got, was released and issued again to a
\* handle derived twice, and a record went out through that.
C26_Witness ==
    /\ call.op = "fresh"
    /\ ret.op = "Info"
    /\ ret.recs = call.recs
    /\ ret.val = 1
    /\ HasKey(heap[ret.val].log, "g2")
    /\ heap[ret.val].ctx = OtherCtx

\* C27: a With, WithField, WithFields or WithError call on a handle that
\* adds at least one attribute checks out exactly one block, also when it
\* adds several keys: one block leaves the pool or is newly made, one
\* handle more is held, and no other block changes. The handle returned
\* has the receiver's context and stack-trace flag, and the receiver's
\* sink with the added attributes after the receiver's own.
OneBlockTaken(v) ==
    /\ \/ /\ call.pool[v] > 0
          /\ pool = [call.pool EXCEPT ![v] = @ - 1]
          /\ nalloc = call.nalloc
       \/ /\ v = call.nalloc + 1
          /\ pool = call.pool
          /\ nalloc = v
    /\ Len(held[v]) = Len(call.held[v]) + 1
    /\ \A b \in Block \ {v} : held[b] = call.held[b] /\ heap[b] = call.heap[b]

C27_WithTakesOneBlock ==
    (call.op = "With" /\ call.e # Nil /\ call.keys # {}) =>
       LET v == ret.val
           r == call.heap[call.e]
           c == heap[v]
       IN /\ v # call.e
          /\ OneBlockTaken(v)
          /\ c.ctx = r.ctx
          /\ c.stackTraces = r.stackTraces
          /\ [c.log EXCEPT !.attrs = <<>>] = [r.log EXCEPT !.attrs = <<>>]
          /\ IsPrefix(r.log.attrs, c.log.attrs)
          /\ Len(c.log.attrs) = Len(r.log.attrs) + Cardinality(call.keys)
          /\ {c.log.attrs[n].k : n \in Len(r.log.attrs) + 1..Len(c.log.attrs)} = call.keys

\* WithFields added two keys at once to a handle that carries a context
\* and the stack-trace flag, and the one block it took came from the pool.
C27_Witness ==
    /\ call.op = "With"
    /\ call.e # Nil
    /\ Cardinality(call.keys) = 2
    /\ call.heap[call.e].ctx = OtherCtx
    /\ call.heap[call.e].stackTraces
    /\ call.pool[ret.val] > 0
    /\ Len(heap[ret.val].log.attrs) = 2

\* Goroutine t passes slog.SetDefault in this step.
SetsDefault(t) == Builds.th[t].stage = "idle" /\ Builds'.th[t].stage = "built"

\* Goroutine t returns from NewLogger in this step.
Completes(t) == Builds.th[t].stage = "built" /\ Builds'.th[t].stage = "idle"

\* C28 as stated: once every construction has returned, the process-wide
\* default is the sink built by the construction that returned last.
C28_DefaultIsLastCompleted ==
    (call.op = "build" /\ \A t \in Threads : call.th[t].stage = "idle") =>
       defaultLog = call.done

\* C28: every NewLogger call, also the one made by Log(ctx) without a
\* logger in ctx and by With on the nil receiver, makes the logger it
\* built the process-wide default at the moment it calls slog.SetDefault,
\* and nothing else changes the default: not the rest of NewLogger, not
\* With on a handle, an emission or a Release. So the default is the
\* sink of the construction that set it last, and when no other
\* construction ran beside it, of the construction that returned last.
C28_DefaultIsLastSet ==
    [][/\ \A t \in Threads :
            /\ SetsDefault(t) => defaultLog' = Builds'.th[t].log
            /\ Completes(t) /\ Builds.th[t].alone =>
                  defaultLog' = Builds.th[t].log /\ Builds'.done = defaultLog'
       /\ (\A t \in Threads : ~SetsDefault(t)) => defaultLog' = defaultLog]_vars

\* Two constructions ran side by side and both have returned: the one
\* that returned last was made by With on the nil receiver, whose handle
\* carries the added attribute, and the default is the error-level sink
\* of the other, which set it later.
C28_Witness ==
    /\ call.op = "build"
    /\ \A t \in Threads : call.th[t].stage = "idle"
    /\ ret.op = "With"
    /\ HasKey(heap[ret.val].log, "g1")
    /\ call.done = BuiltLogger(DefaultOpts)
    /\ defaultLog.level = "ERROR"

\* C29: one call of Debug, Info, Warn or Error hands at most one record
\* to the sink, whatever the stack-trace flag of the handle.
C29_AtMostOneRecord ==
    ret.op \in {"Debug", "Info", "Warn", "Error"} => Len(ret.recs) <= 1

\* The step puts block b into the pool.
Puts(b) == pool'[b] > pool[b]

\* C30: a block enters the pool only in a Release call of a caller or in
\* the Release inside Fatal, and with it one handle on the block is given
\* up; NewLogger, Log, With, WithContext, emission, Panic, Protect,
\* RequestWithLogging and respond put nothing. So a block on which a
\* handle is held is not in the pool.
C30_OnlyReleasePuts ==
    [][/\ \A b \in Block :
            Puts(b) =>
               /\ (\E k \in 1..MaxPooled : Release(b, k, FALSE))
                  \/ (FatalRelease /\ esc.e = b)
               /\ pool'[b] = pool[b] + 1
               /\ Len(held'[b]) = Len(held[b]) - 1
       /\ \A b \in Block : held[b] # <<>> => pool[b] = 0]_vars

\* A block is in the pool after Fatal released its receiver; before that
\* a request was served whose handler panicked, and Protect's answer to
\* it put no block.
C30_Witness ==
    /\ esc.op = "Fatal"
    /\ esc.hist = <<"emit", "release">>
    /\ pool[esc.e] = 1
    /\ call.op = "Protect"
    /\ call.recovered

====
